---- MODULE Spec2Model ----
(***************************************************************************)
(* Model of the ESP32 IoTFlow "API key only" client                        *)
(* (src/esp32_examples/src/main_api_key_only.cpp): setup(), loop(),        *)
(* connectToWiFi(), getDeviceIdFromServer(), connectToMQTT(),              *)
(* mqttCallback(), handleCommand(), sendTelemetryData(), sendHeartbeat().  *)
(* The program is single threaded; the environment (WiFi link, HTTP        *)
(* registry, MQTT broker, sensor, clock) is nondeterministic.              *)
(***************************************************************************)
EXTENDS Integers, Sequences, FiniteSets, TLC

VARIABLES
  pc,             \* position of the single thread of control
  apiKeyValid,    \* whether the compiled-in API_KEY passes the check of setup()
  attempts,       \* connectToWiFi: local counter of the polling loop
  led,            \* level of LED_PIN (0 = LOW, 1 = HIGH)
  device_id,      \* global device_id
  mqttConnected,  \* global mqttConnected
  lastTelemetry,  \* global lastTelemetry
  lastHeartbeat,  \* global lastHeartbeat
  clock,          \* millis(): the hardware millisecond counter, W bits wide
  sessionLive,    \* client.connected(): the broker session is up
  httpCode,       \* getDeviceIdFromServer: local httpCode (0 = no request made)
  signal,         \* arguments of the last blinkLED()/delay() pair of a halt loop
  idWrites,       \* number of assignments to device_id since power-on
  sinceTelemetry, \* milliseconds truly passed since lastTelemetry was set
  sinceHeartbeat, \* milliseconds truly passed since lastHeartbeat was set
  did,            \* library calls made since power-on
  calls           \* library calls made by the last step, in order

vars == <<pc, apiKeyValid, attempts, led, device_id, mqttConnected,
          lastTelemetry, lastHeartbeat, clock, sessionLive, httpCode, signal,
          idWrites, sinceTelemetry, sinceHeartbeat, did, calls>>

----------------------------------------------------------------------------
(* Bounds and program constants *)

\* width of the modelled millisecond counter (unsigned long)
W == 17
\* the clock is observed in steps of 2^QuantumBits milliseconds
QuantumBits == 15
\* a blocking step lets at most this many quanta pass
MaxAdvance == 2

Modulus == 2 ^ W
Quantum == 2 ^ QuantumBits

TELEMETRY_INTERVAL == 10000
HEARTBEAT_INTERVAL == 60000
MaxWifiAttempts == 30
UnresolvedId == 0 - 1

LOW == 0
HIGH == 1

\* ids a registry response may carry (deviceObj["id"]; 0 also stands for a
\* missing or non-numeric id)
ResponseIds == {0 - 2, 0, 7}
\* HTTP result codes of http.GET() (negative: transport error)
HttpCodes == {200, 401, 404, 500, 0 - 1}
\* shapes of the response body, as deserializeJson/containsKey see it
Bodies ==
  {[parseOk |-> FALSE, hasDevice |-> FALSE, id |-> 0],
   [parseOk |-> TRUE, hasDevice |-> FALSE, id |-> 0]}
  \cup {[parseOk |-> TRUE, hasDevice |-> TRUE, id |-> i] : i \in ResponseIds}
\* a DHT reading is a number or not-a-number
Readings == {"num", "nan"}

----------------------------------------------------------------------------
(* Strings as sequences of characters *)

Q == "\""
LedOnStr == <<"l", "e", "d", "_", "o", "n">>
LedOffStr == <<"l", "e", "d", "_", "o", "f", "f">>
RestartStr == <<"r", "e", "s", "t", "a", "r", "t">>
StatusStr == <<"s", "t", "a", "t", "u", "s">>
CommandStr == <<"c", "o", "m", "m", "a", "n", "d">>
NoteStr == <<"n", "o", "t", "e">>
BlinkStr == <<"b", "l", "i", "n", "k">>
HelloStr == <<"h", "e", "l", "l", "o">>

Quote(s) == <<Q>> \o s \o <<Q>>
Member(k, v) == Quote(k) \o <<":">> \o Quote(v)
Obj1(k, v) == <<"{">> \o Member(k, v) \o <<"}">>
Obj2(k1, v1, k2, v2) ==
  <<"{">> \o Member(k1, v1) \o <<",">> \o Member(k2, v2) \o <<"}">>

\* inbound payloads on the command topic
Payloads ==
  {Obj1(CommandStr, LedOnStr), Obj1(CommandStr, LedOffStr),
   Obj1(CommandStr, RestartStr), Obj1(CommandStr, StatusStr),
   Obj1(CommandStr, BlinkStr),
   LedOnStr, LedOffStr, RestartStr, StatusStr, HelloStr,
   LedOffStr \o <<" ">> \o LedOnStr,
   Quote(LedOffStr),
   Obj1(NoteStr, RestartStr),
   Obj2(CommandStr, StatusStr, NoteStr, RestartStr),
   Obj2(NoteStr, LedOnStr, CommandStr, LedOffStr)}

\* String::indexOf(pat) >= 0
Contains(s, pat) ==
  \E i \in 1..(Len(s) - Len(pat) + 1) : SubSeq(s, i, i + Len(pat) - 1) = pat

\* index of the first quote character at or after i, 0 when there is none
RECURSIVE NextQuote(_, _)
NextQuote(s, i) ==
  IF i > Len(s) THEN 0 ELSE IF s[i] = Q THEN i ELSE NextQuote(s, i + 1)

\* a quoted string starting at i: [ok, val, next]
ReadString(s, i) ==
  IF i > Len(s) \/ s[i] # Q
    THEN [ok |-> FALSE, val |-> <<>>, next |-> i]
    ELSE LET j == NextQuote(s, i + 1)
         IN IF j = 0
              THEN [ok |-> FALSE, val |-> <<>>, next |-> i]
              ELSE [ok |-> TRUE, val |-> SubSeq(s, i + 1, j - 1), next |-> j + 1]

\* the members of an object, the cursor standing on a key: [ok, pairs]
RECURSIVE ReadMembers(_, _, _)
ReadMembers(s, i, acc) ==
  LET k == ReadString(s, i)
  IN IF ~k.ok \/ k.next > Len(s) \/ s[k.next] # ":"
       THEN [ok |-> FALSE, pairs |-> <<>>]
       ELSE LET v == ReadString(s, k.next + 1)
                got == Append(acc, <<k.val, v.val>>)
            IN IF ~v.ok \/ v.next > Len(s)
                 THEN [ok |-> FALSE, pairs |-> <<>>]
                 ELSE IF s[v.next] = "}"
                   THEN [ok |-> TRUE, pairs |-> got]
                   ELSE IF s[v.next] = ","
                     THEN ReadMembers(s, v.next + 1, got)
                     ELSE [ok |-> FALSE, pairs |-> <<>>]

\* deserializeJson(doc, message): [error, pairs]; objects with string members
\* and top-level strings parse, everything else of Payloads is invalid input
DeserializeJson(s) ==
  IF Len(s) = 0 THEN [error |-> TRUE, pairs |-> <<>>]
  ELSE IF s[1] = "{"
    THEN IF Len(s) >= 2 /\ s[2] = "}"
           THEN [error |-> FALSE, pairs |-> <<>>]
           ELSE LET r == ReadMembers(s, 2, <<>>)
                IN [error |-> ~r.ok, pairs |-> r.pairs]
  ELSE IF s[1] = Q
    THEN [error |-> ~ReadString(s, 1).ok, pairs |-> <<>>]
    ELSE [error |-> TRUE, pairs |-> <<>>]

\* doc.containsKey(key)
ContainsKey(doc, key) == \E n \in 1..Len(doc.pairs) : doc.pairs[n][1] = key

\* doc[key].as<String>(): the value of the first member named key
ValueOf(doc, key) ==
  LET n == CHOOSE m \in 1..Len(doc.pairs) :
             /\ doc.pairs[m][1] = key
             /\ \A l \in 1..(m - 1) : doc.pairs[l][1] # key
  IN doc.pairs[n][2]

\* Dispatch trying the substrings before the command field
DispatchSubstringFirst(message) ==
  LET doc == DeserializeJson(message)
  IN IF Contains(message, LedOnStr) THEN LedOnStr
     ELSE IF Contains(message, LedOffStr) THEN LedOffStr
     ELSE IF Contains(message, RestartStr) THEN RestartStr
     ELSE IF ~doc.error /\ ContainsKey(doc, CommandStr)
       THEN ValueOf(doc, CommandStr)
       ELSE <<>>

\* Dispatch with a fourth fallback branch, for "status"
DispatchStatusFallback(message) ==
  LET doc == DeserializeJson(message)
  IN IF ~doc.error /\ ContainsKey(doc, CommandStr)
       THEN ValueOf(doc, CommandStr)
       ELSE IF Contains(message, LedOnStr) THEN LedOnStr
       ELSE IF Contains(message, LedOffStr) THEN LedOffStr
       ELSE IF Contains(message, RestartStr) THEN RestartStr
       ELSE IF Contains(message, StatusStr) THEN StatusStr
       ELSE <<>>

\* Dispatch with the fallback for led_on matching on the prefix "led_o"
DispatchLoosePrefix(message) ==
  LET doc == DeserializeJson(message)
  IN IF ~doc.error /\ ContainsKey(doc, CommandStr)
       THEN ValueOf(doc, CommandStr)
       ELSE IF Contains(message, SubSeq(LedOnStr, 1, 5)) THEN LedOnStr
       ELSE IF Contains(message, LedOffStr) THEN LedOffStr
       ELSE IF Contains(message, RestartStr) THEN RestartStr
       ELSE <<>>

\* mqttCallback: the command handed to handleCommand, <<>> when none is
Dispatch(message) ==
  LET doc == DeserializeJson(message)
  IN IF ~doc.error /\ ContainsKey(doc, CommandStr)
       THEN ValueOf(doc, CommandStr)
       ELSE IF Contains(message, LedOnStr) THEN LedOnStr
       ELSE IF Contains(message, LedOffStr) THEN LedOffStr
       ELSE IF Contains(message, RestartStr) THEN RestartStr
       ELSE <<>>

----------------------------------------------------------------------------
(* Library calls, as recorded in calls *)

WifiStatusCall(up) == [op |-> "WiFi.status", up |-> up]
ConfigTimeCall == [op |-> "configTime"]
HttpGetCall(code, body) == [op |-> "http.GET", code |-> code, body |-> body]
DhtReadCall(temperature, humidity) ==
  [op |-> "dht.read", temperature |-> temperature, humidity |-> humidity]
ConnectCall(id, ok) ==
  [op |-> "connect", id |-> id, willTopic |-> "status/offline",
   willRetained |-> TRUE, ok |-> ok]
PublishCall(topic, id, retained, env, live) ==
  [op |-> "publish", topic |-> topic, id |-> id, retained |-> retained,
   temperature |-> env, humidity |-> env, live |-> live]
SubscribeCall(id) == [op |-> "subscribe", topic |-> "commands/control", id |-> id]
CallbackCall(message) == [op |-> "callback", message |-> message]
RestartCall == [op |-> "ESP.restart"]

\* the library calls among cs (a callback is an inbound event, not a call)
OpsOf(cs) == {cs[n].op : n \in 1..Len(cs)} \ {"callback"}
NoSignal == <<>>

\* millis() after d quanta have passed
Advance(c, d) == (c + d * Quantum) % Modulus

----------------------------------------------------------------------------
(* Pure parts of the handlers *)

\* WifiContinue with the bound written as attempts <= 30
WifiContinueOffByOne(up, n) == ~up /\ n <= MaxWifiAttempts

\* connectToWiFi: the condition of the polling loop
WifiContinue(up, n) == ~up /\ n < MaxWifiAttempts

\* getDeviceIdFromServer: device_id after the response was handled
ProvisionedId(old, code, body) ==
  IF code = 200 /\ body.parseOk /\ body.hasDevice THEN body.id ELSE old

\* getDeviceIdFromServer: whether device_id was assigned
ProvisionWrites(code, body) ==
  IF code = 200 /\ body.parseOk /\ body.hasDevice THEN 1 ELSE 0

\* ProvisionSuccess with success = true set outside the check of line 227
ProvisionSuccessUnchecked(code, body) ==
  code = 200 /\ body.parseOk /\ body.hasDevice

\* ProvisionSuccess with the check of line 227 written as device_id >= 0
ProvisionSuccessFromZero(code, body) ==
  code = 200 /\ body.parseOk /\ body.hasDevice /\ body.id >= 0

\* getDeviceIdFromServer: the value returned
ProvisionSuccess(code, body) ==
  code = 200 /\ body.parseOk /\ body.hasDevice /\ body.id > 0

\* setup: blinkLED(times, delayMs); delay(pause) of the two halt loops
KeyHaltSignal == <<5, 100, 2000>>

\* ProvHaltSignal with one pattern per failure class
ProvHaltSignalPerClass(code) ==
  IF code = 401 THEN <<2, 500, 3000>>
  ELSE IF code = 404 THEN <<4, 500, 3000>>
  ELSE <<3, 500, 3000>>

ProvHaltSignal(code) == <<3, 500, 3000>>

\* connectToMQTT: the early return
ConnectRefused(id) == id <= 0

\* sendTelemetryData / sendHeartbeat: the guard, TRUE when the body runs
TelemetryGate(flag, id) == ~(~flag \/ id <= 0)
HeartbeatGate(flag, id) == ~(~flag \/ id <= 0)

\* DhtValid with || in place of &&
DhtValidEither(temperature, humidity) == temperature # "nan" \/ humidity # "nan"

\* sendTelemetryData: dht_valid
DhtValid(temperature, humidity) == temperature # "nan" /\ humidity # "nan"

\* Due with the difference taken without wrap-around
DueNoWrap(now, last, interval) == now - last >= interval

\* loop: currentTime - last >= interval, in unsigned W-bit arithmetic
Due(now, last, interval) == ((now - last) % Modulus) >= interval

\* the calls sendTelemetryData makes
TelemetryCalls(flag, id, temperature, humidity, live) ==
  IF TelemetryGate(flag, id)
    THEN <<DhtReadCall(temperature, humidity),
           PublishCall("telemetry/sensors", id, FALSE,
                       DhtValid(temperature, humidity), live)>>
    ELSE <<>>

\* the level of the LED after sendTelemetryData (both branches end LOW)
TelemetryLed(flag, id, l) == IF TelemetryGate(flag, id) THEN LOW ELSE l

\* the calls sendHeartbeat makes
HeartbeatCalls(flag, id, live) ==
  IF HeartbeatGate(flag, id)
    THEN <<PublishCall("status/heartbeat", id, FALSE, FALSE, live)>>
    ELSE <<>>

\* CommandLed with the two LED levels swapped
CommandLedSwapped(command, flag, id, l) ==
  IF command = LedOnStr THEN LOW
  ELSE IF command = LedOffStr THEN HIGH
  ELSE IF command = RestartStr THEN l
  ELSE IF command = StatusStr THEN TelemetryLed(flag, id, l)
  ELSE l

\* handleCommand: the level of the LED after the command
CommandLed(command, flag, id, l) ==
  IF command = LedOnStr THEN HIGH
  ELSE IF command = LedOffStr THEN LOW
  ELSE IF command = RestartStr THEN l
  ELSE IF command = StatusStr THEN TelemetryLed(flag, id, l)
  ELSE l

\* handleCommand: the calls the command makes
CommandCalls(command, flag, id, temperature, humidity, live) ==
  IF command = LedOnStr THEN <<>>
  ELSE IF command = LedOffStr THEN <<>>
  ELSE IF command = RestartStr THEN <<RestartCall>>
  ELSE IF command = StatusStr
    THEN TelemetryCalls(flag, id, temperature, humidity, live)
  ELSE <<>>

----------------------------------------------------------------------------
(* The state machine *)

TypeOK ==
  /\ pc \in {"setup", "halt_key", "wifi", "ntp", "provision", "halt_prov",
             "loop", "mqtt_connect", "client_loop", "timers", "restarting"}
  /\ apiKeyValid \in BOOLEAN
  /\ attempts \in 0..MaxWifiAttempts
  /\ led \in {LOW, HIGH}
  /\ device_id \in ResponseIds \cup {UnresolvedId}
  /\ mqttConnected \in BOOLEAN
  /\ lastTelemetry \in 0..(Modulus - 1)
  /\ lastHeartbeat \in 0..(Modulus - 1)
  /\ clock \in 0..(Modulus - 1)
  /\ sinceTelemetry \in 0..Modulus
  /\ sinceHeartbeat \in 0..Modulus
  /\ sessionLive \in BOOLEAN
  /\ httpCode \in HttpCodes \cup {0}
  /\ signal \in {NoSignal, KeyHaltSignal, ProvHaltSignal(httpCode)}
  /\ idWrites \in 0..1

\* true time passed since a timer was set, after d more quanta; Modulus
\* stands for every time of Modulus or more
Elapse(since, d) ==
  IF since + d * Quantum >= Modulus THEN Modulus ELSE since + d * Quantum

\* d quanta of time pass without a timer being serviced
Pass(d) ==
  /\ clock' = Advance(clock, d)
  /\ sinceTelemetry' = Elapse(sinceTelemetry, d)
  /\ sinceHeartbeat' = Elapse(sinceHeartbeat, d)

\* the globals as initialised at power-on (lines 47-54)
PowerOnState ==
  /\ pc = "setup"
  /\ attempts = 0
  /\ led = LOW
  /\ device_id = UnresolvedId
  /\ mqttConnected = FALSE
  /\ lastTelemetry = 0
  /\ lastHeartbeat = 0
  /\ clock = 0
  /\ sinceTelemetry = 0
  /\ sinceHeartbeat = 0
  /\ sessionLive = FALSE
  /\ httpCode = 0
  /\ signal = NoSignal
  /\ idWrites = 0
  /\ did = {}
  /\ calls = <<>>

Init == apiKeyValid \in BOOLEAN /\ PowerOnState

\* setup(), lines 71-93: the API key check and the hardware initialisation
Setup ==
  /\ pc = "setup"
  /\ pc' = IF apiKeyValid THEN "wifi" ELSE "halt_key"
  /\ led' = LOW
  /\ attempts' = 0
  /\ calls' = <<>>
  /\ UNCHANGED <<apiKeyValid, device_id, mqttConnected, lastTelemetry,
                 lastHeartbeat, clock, sinceTelemetry, sinceHeartbeat,
                 sessionLive, httpCode, signal,
                 idWrites, did>>

\* HaltKey ending the halt loop with a restart
HaltKeyRestart ==
  /\ pc = "halt_key"
  /\ signal' = KeyHaltSignal
  /\ led' = LOW
  /\ calls' = <<RestartCall>>
  /\ pc' = "restarting"
  /\ \E d \in 0..1 : Pass(d)
  /\ UNCHANGED <<apiKeyValid, attempts, device_id, mqttConnected,
                 lastTelemetry, lastHeartbeat, sessionLive, httpCode,
                 idWrites, did>>

\* setup(), lines 82-85: the halt loop of an invalid API key
HaltKey ==
  /\ pc = "halt_key"
  /\ signal' = KeyHaltSignal
  /\ led' = LOW
  /\ calls' = <<>>
  /\ \E d \in 0..1 : Pass(d)
  /\ UNCHANGED <<pc, apiKeyValid, attempts, device_id, mqttConnected,
                 lastTelemetry, lastHeartbeat, sessionLive, httpCode,
                 idWrites, did>>

\* connectToWiFi(): one evaluation of the loop condition; when the loop is
\* left, the status check of line 161 and its two branches
ConnectToWiFi ==
  /\ pc = "wifi"
  /\ \E up \in BOOLEAN :
       IF WifiContinue(up, attempts)
         THEN /\ attempts' = attempts + 1
              /\ led' = 1 - led
              /\ pc' = pc
              /\ calls' = <<WifiStatusCall(up)>>
              /\ \E d \in 0..1 : Pass(d)
         ELSE \E up2 \in BOOLEAN :
              /\ attempts' = attempts
              /\ led' = IF up2 THEN LOW ELSE led
              /\ pc' = IF up2 THEN "ntp" ELSE "restarting"
              /\ calls' = <<WifiStatusCall(up), WifiStatusCall(up2)>>
                            \o (IF up2 THEN <<>> ELSE <<RestartCall>>)
              /\ Pass(0)
  /\ did' = did \cup OpsOf(calls')
  /\ UNCHANGED <<apiKeyValid, device_id, mqttConnected, lastTelemetry,
                 lastHeartbeat, sessionLive, httpCode, signal, idWrites>>

\* setupTime(): best effort, never fatal
SetupTime ==
  /\ pc = "ntp"
  /\ pc' = "provision"
  /\ calls' = <<ConfigTimeCall>>
  /\ did' = did \cup OpsOf(calls')
  /\ \E d \in 0..1 : Pass(d)
  /\ UNCHANGED <<apiKeyValid, attempts, led, device_id, mqttConnected,
                 lastTelemetry, lastHeartbeat, sessionLive, httpCode, signal,
                 idWrites>>

\* getDeviceIdFromServer() and the code of setup() that uses its result
\* (lines 103-118)
GetDeviceIdFromServer ==
  /\ pc = "provision"
  /\ \E up \in BOOLEAN :
       IF ~up
         THEN /\ calls' = <<WifiStatusCall(up)>>
              /\ pc' = "halt_prov"
              /\ UNCHANGED <<device_id, httpCode, idWrites, led, clock,
                             sinceTelemetry, sinceHeartbeat>>
         ELSE \E code \in HttpCodes, body \in Bodies :
              /\ calls' = <<WifiStatusCall(up), HttpGetCall(code, body)>>
              /\ httpCode' = code
              /\ device_id' = ProvisionedId(device_id, code, body)
              /\ idWrites' = idWrites + ProvisionWrites(code, body)
              /\ pc' = IF ProvisionSuccess(code, body) THEN "loop" ELSE "halt_prov"
              /\ led' = IF ProvisionSuccess(code, body) THEN LOW ELSE led
              /\ \E d \in 0..1 : Pass(d)
  /\ did' = did \cup OpsOf(calls')
  /\ UNCHANGED <<apiKeyValid, attempts, mqttConnected, lastTelemetry,
                 lastHeartbeat, sessionLive, signal>>

\* HaltProv with a halt loop that gives up and asks for the identity again
HaltProvRetry ==
  /\ pc = "halt_prov"
  /\ signal' = ProvHaltSignal(httpCode)
  /\ led' = LOW
  /\ calls' = <<>>
  /\ pc' = "provision"
  /\ \E d \in 0..1 : Pass(d)
  /\ UNCHANGED <<apiKeyValid, attempts, device_id, mqttConnected,
                 lastTelemetry, lastHeartbeat, sessionLive, httpCode,
                 idWrites, did>>

\* setup(), lines 106-109: the halt loop of a failed provisioning
HaltProv ==
  /\ pc = "halt_prov"
  /\ signal' = ProvHaltSignal(httpCode)
  /\ led' = LOW
  /\ calls' = <<>>
  /\ \E d \in 0..1 : Pass(d)
  /\ UNCHANGED <<pc, apiKeyValid, attempts, device_id, mqttConnected,
                 lastTelemetry, lastHeartbeat, sessionLive, httpCode,
                 idWrites, did>>

\* LoopTop with a loop that resolves the identity again whenever the session
\* is found lost
LoopTopReprovision ==
  /\ pc = "loop"
  /\ pc' = IF ~sessionLive THEN "provision" ELSE "client_loop"
  /\ calls' = <<>>
  /\ UNCHANGED <<apiKeyValid, attempts, led, device_id, mqttConnected,
                 lastTelemetry, lastHeartbeat, clock, sinceTelemetry, sinceHeartbeat,
                 sessionLive, httpCode,
                 signal, idWrites, did>>

\* LoopTop testing the flag mqttConnected instead of client.connected()
LoopTopByFlag ==
  /\ pc = "loop"
  /\ pc' = IF ~mqttConnected /\ ~ConnectRefused(device_id)
             THEN "mqtt_connect" ELSE "client_loop"
  /\ calls' = <<>>
  /\ UNCHANGED <<apiKeyValid, attempts, led, device_id, mqttConnected,
                 lastTelemetry, lastHeartbeat, clock, sinceTelemetry,
                 sinceHeartbeat, sessionLive, httpCode, signal, idWrites, did>>

\* loop(), lines 123-125, and the early return of connectToMQTT()
LoopTop ==
  /\ pc = "loop"
  /\ pc' = IF ~sessionLive /\ ~ConnectRefused(device_id)
             THEN "mqtt_connect" ELSE "client_loop"
  /\ calls' = <<>>
  /\ UNCHANGED <<apiKeyValid, attempts, led, device_id, mqttConnected,
                 lastTelemetry, lastHeartbeat, clock, sinceTelemetry, sinceHeartbeat,
                 sessionLive, httpCode,
                 signal, idWrites, did>>

\* connectToMQTT() subscribing before it announces the device online
ConnectToMQTTSubscribeFirst ==
  /\ pc = "mqtt_connect"
  /\ IF sessionLive
       THEN /\ pc' = "client_loop"
            /\ calls' = <<>>
            /\ UNCHANGED <<sessionLive, mqttConnected, led, clock,
                           sinceTelemetry, sinceHeartbeat>>
       ELSE \E ok \in BOOLEAN :
            /\ pc' = pc
            /\ sessionLive' = ok
            /\ mqttConnected' = IF ok THEN TRUE ELSE mqttConnected
            /\ led' = LOW
            /\ calls' = IF ok
                 THEN <<ConnectCall(device_id, TRUE),
                        SubscribeCall(device_id),
                        PublishCall("status/online", device_id, TRUE, FALSE, TRUE)>>
                 ELSE <<ConnectCall(device_id, FALSE)>>
            /\ \E d \in 0..1 : Pass(IF ok THEN 0 ELSE d)
  /\ did' = did \cup OpsOf(calls')
  /\ UNCHANGED <<apiKeyValid, attempts, device_id, lastTelemetry,
                 lastHeartbeat, httpCode, signal, idWrites>>

\* connectToMQTT(): one evaluation of the loop condition and, when the
\* client is not connected, one pass through the loop body
ConnectToMQTT ==
  /\ pc = "mqtt_connect"
  /\ IF sessionLive
       THEN /\ pc' = "client_loop"
            /\ calls' = <<>>
            /\ UNCHANGED <<sessionLive, mqttConnected, led, clock,
                           sinceTelemetry, sinceHeartbeat>>
       ELSE \E ok \in BOOLEAN :
            /\ pc' = pc
            /\ sessionLive' = ok
            /\ mqttConnected' = IF ok THEN TRUE ELSE mqttConnected
            /\ led' = LOW
            /\ calls' = IF ok
                 THEN <<ConnectCall(device_id, TRUE),
                        PublishCall("status/online", device_id, TRUE, FALSE, TRUE),
                        SubscribeCall(device_id)>>
                 ELSE <<ConnectCall(device_id, FALSE)>>
            /\ \E d \in 0..1 : Pass(IF ok THEN 0 ELSE d)
  /\ did' = did \cup OpsOf(calls')
  /\ UNCHANGED <<apiKeyValid, attempts, device_id, lastTelemetry,
                 lastHeartbeat, httpCode, signal, idWrites>>

\* client.loop() with no inbound message
ClientLoopIdle ==
  /\ pc = "client_loop"
  /\ pc' = "timers"
  /\ calls' = <<>>
  /\ UNCHANGED <<apiKeyValid, attempts, led, device_id, mqttConnected,
                 lastTelemetry, lastHeartbeat, clock, sinceTelemetry, sinceHeartbeat,
                 sessionLive, httpCode,
                 signal, idWrites, did>>

\* MqttCallback with a status command that also restarts the telemetry
\* interval
MqttCallbackStatusResetsTimer ==
  /\ pc = "client_loop"
  /\ sessionLive
  /\ \E message \in Payloads :
       LET command == Dispatch(message)
       IN /\ \E temperature \in Readings, humidity \in Readings :
               calls' = <<CallbackCall(message)>>
                        \o CommandCalls(command, mqttConnected, device_id,
                                        temperature, humidity, sessionLive)
          /\ led' = CommandLed(command, mqttConnected, device_id, led)
          /\ pc' = IF command = RestartStr THEN "restarting" ELSE "timers"
          /\ lastTelemetry' = IF command = StatusStr THEN clock ELSE lastTelemetry
          /\ sinceTelemetry' = IF command = StatusStr THEN 0 ELSE sinceTelemetry
  /\ did' = did \cup OpsOf(calls')
  /\ UNCHANGED <<apiKeyValid, attempts, device_id, mqttConnected,
                 lastHeartbeat, clock, sinceHeartbeat, sessionLive, httpCode,
                 signal, idWrites>>

\* client.loop() delivering one inbound message: mqttCallback() and
\* handleCommand()
MqttCallback ==
  /\ pc = "client_loop"
  /\ sessionLive
  /\ \E message \in Payloads :
       LET command == Dispatch(message)
       IN /\ \E temperature \in Readings, humidity \in Readings :
               calls' = <<CallbackCall(message)>>
                        \o CommandCalls(command, mqttConnected, device_id,
                                        temperature, humidity, sessionLive)
          /\ led' = CommandLed(command, mqttConnected, device_id, led)
          /\ pc' = IF command = RestartStr THEN "restarting" ELSE "timers"
  /\ did' = did \cup OpsOf(calls')
  /\ UNCHANGED <<apiKeyValid, attempts, device_id, mqttConnected,
                 lastTelemetry, lastHeartbeat, clock, sinceTelemetry, sinceHeartbeat,
                 sessionLive, httpCode,
                 signal, idWrites>>

\* Timers with one shared timestamp: servicing telemetry also restarts the
\* heartbeat interval
TimersSharedStamp ==
  /\ pc = "timers"
  /\ LET currentTime == clock
         teleDue == Due(currentTime, lastTelemetry, TELEMETRY_INTERVAL)
         beatDue == Due(currentTime, lastHeartbeat, HEARTBEAT_INTERVAL)
     IN /\ \E temperature \in Readings, humidity \in Readings :
             calls' = (IF teleDue
                         THEN TelemetryCalls(mqttConnected, device_id,
                                             temperature, humidity, sessionLive)
                         ELSE <<>>)
                      \o (IF beatDue
                            THEN HeartbeatCalls(mqttConnected, device_id, sessionLive)
                            ELSE <<>>)
        /\ led' = IF teleDue THEN TelemetryLed(mqttConnected, device_id, led) ELSE led
        /\ lastTelemetry' = IF teleDue THEN currentTime ELSE lastTelemetry
        /\ lastHeartbeat' = IF beatDue \/ teleDue THEN currentTime ELSE lastHeartbeat
        /\ \E d \in 0..MaxAdvance :
             /\ clock' = Advance(clock, d)
             /\ sinceTelemetry' = Elapse(IF teleDue THEN 0 ELSE sinceTelemetry, d)
             /\ sinceHeartbeat' =
                  Elapse(IF beatDue \/ teleDue THEN 0 ELSE sinceHeartbeat, d)
  /\ pc' = "loop"
  /\ did' = did \cup OpsOf(calls')
  /\ UNCHANGED <<apiKeyValid, attempts, device_id, mqttConnected, sessionLive,
                 httpCode, signal, idWrites>>

\* Timers keeping the telemetry timer due until a publish reaches the broker
TimersRetryOnFailure ==
  /\ pc = "timers"
  /\ LET currentTime == clock
         teleDue == Due(currentTime, lastTelemetry, TELEMETRY_INTERVAL)
         beatDue == Due(currentTime, lastHeartbeat, HEARTBEAT_INTERVAL)
     IN /\ \E temperature \in Readings, humidity \in Readings :
             calls' = (IF teleDue
                         THEN TelemetryCalls(mqttConnected, device_id,
                                             temperature, humidity, sessionLive)
                         ELSE <<>>)
                      \o (IF beatDue
                            THEN HeartbeatCalls(mqttConnected, device_id, sessionLive)
                            ELSE <<>>)
        /\ led' = IF teleDue THEN TelemetryLed(mqttConnected, device_id, led) ELSE led
        /\ lastTelemetry' = IF teleDue /\ sessionLive THEN currentTime
                          ELSE lastTelemetry
        /\ lastHeartbeat' = IF beatDue THEN currentTime ELSE lastHeartbeat
        /\ \E d \in 0..MaxAdvance :
             /\ clock' = Advance(clock, d)
             /\ sinceTelemetry' = Elapse(IF teleDue /\ sessionLive THEN 0
                                           ELSE sinceTelemetry, d)
             /\ sinceHeartbeat' = Elapse(IF beatDue THEN 0 ELSE sinceHeartbeat, d)
  /\ pc' = "loop"
  /\ did' = did \cup OpsOf(calls')
  /\ UNCHANGED <<apiKeyValid, attempts, device_id, mqttConnected, sessionLive,
                 httpCode, signal, idWrites>>

\* loop(), lines 128-142: the two interval checks and the closing delay
Timers ==
  /\ pc = "timers"
  /\ LET currentTime == clock
         teleDue == Due(currentTime, lastTelemetry, TELEMETRY_INTERVAL)
         beatDue == Due(currentTime, lastHeartbeat, HEARTBEAT_INTERVAL)
     IN /\ \E temperature \in Readings, humidity \in Readings :
             calls' = (IF teleDue
                         THEN TelemetryCalls(mqttConnected, device_id,
                                             temperature, humidity, sessionLive)
                         ELSE <<>>)
                      \o (IF beatDue
                            THEN HeartbeatCalls(mqttConnected, device_id, sessionLive)
                            ELSE <<>>)
        /\ led' = IF teleDue THEN TelemetryLed(mqttConnected, device_id, led) ELSE led
        /\ lastTelemetry' = IF teleDue THEN currentTime ELSE lastTelemetry
        /\ lastHeartbeat' = IF beatDue THEN currentTime ELSE lastHeartbeat
        /\ \E d \in 0..MaxAdvance :
             /\ clock' = Advance(clock, d)
             /\ sinceTelemetry' = Elapse(IF teleDue THEN 0 ELSE sinceTelemetry, d)
             /\ sinceHeartbeat' = Elapse(IF beatDue THEN 0 ELSE sinceHeartbeat, d)
  /\ pc' = "loop"
  /\ did' = did \cup OpsOf(calls')
  /\ UNCHANGED <<apiKeyValid, attempts, device_id, mqttConnected, sessionLive,
                 httpCode, signal, idWrites>>

\* the broker session is lost (network failure, keep-alive timeout)
ConnectionLost ==
  /\ pc \in {"loop", "mqtt_connect", "client_loop", "timers"}
  /\ sessionLive
  /\ sessionLive' = FALSE
  /\ calls' = <<>>
  /\ UNCHANGED <<pc, apiKeyValid, attempts, led, device_id, mqttConnected,
                 lastTelemetry, lastHeartbeat, clock, sinceTelemetry, sinceHeartbeat,
                 httpCode, signal,
                 idWrites, did>>

\* ESP.restart(): the device boots again with the same firmware
PowerOn ==
  /\ pc = "restarting"
  /\ apiKeyValid' = apiKeyValid
  /\ pc' = "setup"
  /\ attempts' = 0
  /\ led' = LOW
  /\ device_id' = UnresolvedId
  /\ mqttConnected' = FALSE
  /\ lastTelemetry' = 0
  /\ lastHeartbeat' = 0
  /\ clock' = 0
  /\ sinceTelemetry' = 0
  /\ sinceHeartbeat' = 0
  /\ sessionLive' = FALSE
  /\ httpCode' = 0
  /\ signal' = NoSignal
  /\ idWrites' = 0
  /\ did' = {}
  /\ calls' = <<>>

Next ==
  \/ Setup
  \/ HaltKey
  \/ ConnectToWiFi
  \/ SetupTime
  \/ GetDeviceIdFromServer
  \/ HaltProv
  \/ LoopTop
  \/ ConnectToMQTT
  \/ ClientLoopIdle
  \/ MqttCallback
  \/ Timers
  \/ ConnectionLost
  \/ PowerOn

Spec == Init /\ [][Next]_vars

\* the steps of the program itself: the single thread is never descheduled
\* (every delay() returns), so it always takes its next step
Thread ==
  \/ Setup
  \/ HaltKey
  \/ ConnectToWiFi
  \/ SetupTime
  \/ GetDeviceIdFromServer
  \/ HaltProv
  \/ LoopTop
  \/ ConnectToMQTT
  \/ ClientLoopIdle
  \/ MqttCallback
  \/ Timers
  \/ PowerOn

\* connectToMQTT() with the broker accepting the connect (or the session
\* found up by the loop condition)
ConnectAccepted == ConnectToMQTT /\ sessionLive'

\* the program keeps running, and a broker that is asked again and again
\* eventually accepts
FairSpec ==
  /\ Spec
  /\ WF_vars(Thread)
  /\ WF_vars(ConnectAccepted)

----------------------------------------------------------------------------
(* Vocabulary of the claims *)

LoopPcs == {"loop", "mqtt_connect", "client_loop", "timers"}
MessagingOps == {"connect", "publish", "subscribe"}
EmissionTopics == {"telemetry/sensors", "status/heartbeat"}

IsEmission(c) == c.op = "publish" /\ c.topic \in EmissionTopics
IsTelemetry(c) == c.op = "publish" /\ c.topic = "telemetry/sensors"
HasOp(cs, op) == \E n \in 1..Len(cs) : cs[n].op = op

\* sendTelemetryData or sendHeartbeat is about to read mqttConnected
FlagConsulted ==
  /\ pc = "timers"
  /\ \/ Due(clock, lastTelemetry, TELEMETRY_INTERVAL)
     \/ Due(clock, lastHeartbeat, HEARTBEAT_INTERVAL)

----------------------------------------------------------------------------
(* C1 *)

\* C1: every publish call on the telemetry or heartbeat topic is made with
\* the identity resolved (device_id > 0) and the broker session up at that
\* moment; with the identity unresolved or the connection down no such call
\* is made, also after an established session has been lost.
C1_NoEmissionWhileDown ==
  \A n \in 1..Len(calls) :
    IsEmission(calls[n]) => calls[n].id > 0 /\ calls[n].live

----------------------------------------------------------------------------
(* C2 *)

\* C2: mqttConnected tells whether the client holds a live session: it is
\* false before the first successful connect, false while a lost session is
\* being re-established by connectToMQTT, and wherever the flag is consulted
\* flag = TRUE implies that the session is live.
C2_FlagTracksSession ==
  /\ ("connect" \notin did => ~mqttConnected)
  /\ (pc = "mqtt_connect" /\ ~sessionLive => ~mqttConnected)
  /\ (FlagConsulted /\ mqttConnected => sessionLive)

----------------------------------------------------------------------------
(* C3 *)

\* C3: device_id starts at the unresolved sentinel, is assigned at most once
\* per power-on session and only by getDeviceIdFromServer, and once positive
\* it keeps its value until the restart.
C3_IdentityWrittenOnce ==
  [][/\ (pc' = "setup" => device_id' = UnresolvedId)
     /\ idWrites' <= 1
     /\ (device_id' # device_id => pc \in {"provision", "restarting"})
     /\ (device_id > 0 /\ pc # "restarting" => device_id' = device_id)]_vars

\* the identity is resolved, a session was established and an inbound
\* command has just been handled
C3_Witness ==
  /\ device_id > 0
  /\ idWrites = 1
  /\ "publish" \in did
  /\ HasOp(calls, "callback")

----------------------------------------------------------------------------
(* C4 *)

\* a response body from which no positive id can be taken
BadBody(b) == ~b.parseOk \/ ~b.hasDevice \/ b.id <= 0

\* the step is getDeviceIdFromServer receiving HTTP 200 with a bad body
BadOkResponse ==
  /\ pc = "provision"
  /\ Len(calls') = 2
  /\ calls'[2].op = "http.GET"
  /\ calls'[2].code = 200
  /\ BadBody(calls'[2].body)

\* C4 as stated: a 200 response whose body is malformed, lacks the device
\* object or carries id <= 0 halts startup and leaves the identity state as
\* it is after a failed request (device_id never assigned, still -1).
C4_BadBodyLeavesIdentityUntouched ==
  [][BadOkResponse =>
       /\ pc' = "halt_prov"
       /\ device_id' = UnresolvedId
       /\ idWrites' = 0]_vars

\* C4 amended: such a response halts startup in the same halt loop as a
\* non-200 response with the identity unresolved (device_id <= 0) and no
\* messaging; device_id keeps -1 for a malformed body or a missing device
\* object and takes the non-positive id of the response otherwise.
C4_BadBodyHaltsUnresolved ==
  [][BadOkResponse =>
       /\ pc' = "halt_prov"
       /\ device_id' <= 0
       /\ device_id' = IF calls'[2].body.parseOk /\ calls'[2].body.hasDevice
                         THEN calls'[2].body.id ELSE UnresolvedId
       /\ ~mqttConnected'
       /\ did' \cap MessagingOps = {}]_vars

\* startup has halted after a 200 response that carried id 0
C4_Witness ==
  /\ pc = "halt_prov"
  /\ httpCode = 200
  /\ device_id = 0
  /\ signal = ProvHaltSignal(500)

----------------------------------------------------------------------------
(* C5 *)

\* C5: a 401 from the registry puts the device in the halt loop of setup(),
\* and every later step stays there, repeats the blink pattern and makes no
\* library call: no HTTP request, connect, subscribe, publish or restart.
C5_AuthFailureHaltsForever ==
  [][/\ (pc = "provision" /\ httpCode' = 401 => pc' = "halt_prov")
     /\ (pc = "halt_prov" /\ httpCode = 401 =>
           /\ pc' = "halt_prov"
           /\ httpCode' = 401
           /\ signal' = ProvHaltSignal(401)
           /\ calls' = <<>>
           /\ did' = did
           /\ ~sessionLive' /\ ~mqttConnected'
           /\ device_id' = device_id)]_vars

\* the halt loop has run at least once after a 401
C5_Witness ==
  /\ pc = "halt_prov"
  /\ httpCode = 401
  /\ signal # NoSignal
  /\ calls = <<>>

----------------------------------------------------------------------------
(* C6 *)

FailureClass(code) ==
  IF code = 401 THEN "invalid-credential"
  ELSE IF code = 404 THEN "not-found"
  ELSE "other"

\* C6 as stated: the blink pattern of the halt loop tells the failure class:
\* the pattern shown after a failure of one class is not the pattern the
\* code shows for a failure of another class.
C6_SignalTellsClass ==
  (pc = "halt_prov" /\ signal # NoSignal) =>
    \A code \in HttpCodes :
      FailureClass(code) # FailureClass(httpCode) => ProvHaltSignal(code) # signal

\* C6 amended: every provisioning failure (401, 404, any other) halts with
\* one and the same blink pattern, which differs only from the pattern of
\* the invalid-API-key halt; the class is told by the log line alone.
C6_OneSignalForProvisioning ==
  /\ (pc = "halt_prov" /\ signal # NoSignal =>
        /\ \A code \in HttpCodes : signal = ProvHaltSignal(code)
        /\ signal # KeyHaltSignal)
  /\ (pc = "halt_key" /\ signal # NoSignal => signal = KeyHaltSignal)

\* the halt loop has shown its pattern after a 404
C6_Witness ==
  /\ pc = "halt_prov"
  /\ httpCode = 404
  /\ signal = ProvHaltSignal(404)

----------------------------------------------------------------------------
(* C7 *)

\* the step leaves the polling loop of connectToWiFi
JoinDecided == pc = "wifi" /\ pc' # "wifi"

\* what may have happened before a restart forced by the network join
JoinOnlyOps == {"WiFi.status", "ESP.restart"}

\* some status poll of the step found the link up
SawLinkUp(cs) == \E n \in 1..Len(cs) : cs[n].op = "WiFi.status" /\ cs[n].up

\* C7 as stated: at most 30 polling rounds; when the link has come up
\* within the bound startup proceeds without restart, when it has not the
\* device restarts, and nothing but the join was attempted before that.
C7_LinkUpWithinBoundProceeds ==
  [][/\ (pc = "wifi" => attempts' <= MaxWifiAttempts)
     /\ (JoinDecided =>
           /\ (SawLinkUp(calls') => pc' = "ntp")
           /\ (~SawLinkUp(calls') => pc' = "restarting")
           /\ (pc' = "restarting" => did' \subseteq JoinOnlyOps))]_vars

\* C7 amended: at most 30 polling rounds, each round that stays in the loop
\* using up one attempt; the outcome is decided by the separate status check
\* made after the loop (line 161), not by the polls of the loop: link down
\* at that check means restart with nothing but the join attempted, link up
\* means startup proceeds without restart.
C7_JoinDecidedByFinalCheck ==
  [][/\ (pc = "wifi" =>
           /\ attempts' <= MaxWifiAttempts
           /\ (pc' = "wifi" => attempts' = attempts + 1))
     /\ (JoinDecided =>
           /\ Len(calls') >= 2
           /\ calls'[2].op = "WiFi.status"
           /\ (calls'[2].up => pc' = "ntp" /\ "ESP.restart" \notin did')
           /\ (~calls'[2].up =>
                 /\ pc' = "restarting"
                 /\ did' \subseteq JoinOnlyOps
                 /\ device_id' = UnresolvedId
                 /\ ~mqttConnected'))]_vars

\* all 30 attempts were used up and the device is restarting
C7_Witness ==
  /\ pc = "restarting"
  /\ attempts = MaxWifiAttempts
  /\ ~SawLinkUp(calls)
  /\ HasOp(calls, "ESP.restart")

----------------------------------------------------------------------------
(* C8 *)

\* C8: the steady-state loop is entered only with a positive identity taken
\* from a 200 response, no connect, publish or subscribe happens before
\* that, and every such call carries device_id in its topic and payload.
C8_FailClosedStartup ==
  /\ (pc \in LoopPcs => device_id > 0 /\ httpCode = 200)
  /\ (did \cap MessagingOps # {} => device_id > 0 /\ "http.GET" \in did)
  /\ \A n \in 1..Len(calls) :
       calls[n].op \in MessagingOps => calls[n].id = device_id /\ device_id > 0

\* the loop has just published telemetry under the identity of the registry
C8_Witness ==
  /\ pc \in LoopPcs
  /\ device_id = 7
  /\ \E n \in 1..Len(calls) : IsTelemetry(calls[n]) /\ calls[n].id = 7

----------------------------------------------------------------------------
(* C9 *)

\* the step runs sendTelemetryData (timer or status command) past its guard
TelemetryRuns ==
  /\ mqttConnected
  /\ device_id > 0
  /\ \/ /\ pc = "timers"
        /\ pc' = "loop"
        /\ Due(clock, lastTelemetry, TELEMETRY_INTERVAL)
     \/ /\ pc = "client_loop"
        /\ calls' # <<>>
        /\ calls'[1].op = "callback"
        /\ Dispatch(calls'[1].message) = StatusStr

\* the sensor read at position n of cs is followed by a telemetry publish
\* whose environmental fields are both present exactly when both readings
\* are numbers
ReadThenPublish(cs, n) ==
  /\ n < Len(cs)
  /\ IsTelemetry(cs[n + 1])
  /\ LET bothValid == cs[n].temperature = "num" /\ cs[n].humidity = "num"
     IN /\ cs[n + 1].temperature = bothValid
        /\ cs[n + 1].humidity = bothValid

\* C9: whenever sendTelemetryData runs with the identity resolved and the
\* flag set, the sensor is read and a publish on the telemetry topic follows
\* whatever was read; temperature and humidity are both left out when either
\* reading is not-a-number and both present when both are numbers.
C9_SensorFaultStillPublishes ==
  [][/\ (TelemetryRuns => HasOp(calls', "dht.read"))
     /\ \A n \in 1..Len(calls') :
          calls'[n].op = "dht.read" => ReadThenPublish(calls', n)]_vars

\* telemetry went out without the environmental fields after a failed
\* humidity reading
C9_Witness ==
  \E n \in 1..Len(calls) :
    /\ calls[n].op = "dht.read"
    /\ calls[n].temperature = "num"
    /\ calls[n].humidity = "nan"
    /\ n < Len(calls)
    /\ IsTelemetry(calls[n + 1])
    /\ ~calls[n + 1].temperature

----------------------------------------------------------------------------
(* C10 *)

LedOnJson == Obj1(CommandStr, LedOnStr)

\* the step is client.loop() delivering {"command":"led_on"}
LedOnDelivered ==
  /\ pc = "client_loop"
  /\ calls' # <<>>
  /\ calls'[1] = CallbackCall(LedOnJson)

\* C10: handling {"command":"led_on"} drives the LED high and does nothing
\* else: no library call (publish, restart), and device_id, mqttConnected,
\* lastTelemetry and lastHeartbeat keep their values.
C10_LedOnOnlyDrivesLed ==
  [][LedOnDelivered =>
       /\ led' = HIGH
       /\ Len(calls') = 1
       /\ did' = did
       /\ pc' = "timers"
       /\ UNCHANGED <<device_id, mqttConnected, lastTelemetry, lastHeartbeat,
                      sessionLive, idWrites>>]_vars

\* {"command":"led_on"} has just been handled and the LED is on
C10_Witness ==
  /\ calls = <<CallbackCall(LedOnJson)>>
  /\ led = HIGH
  /\ pc = "timers"


----------------------------------------------------------------------------
(* C11 *)

LedOffJson == Obj1(CommandStr, LedOffStr)

\* the step is client.loop() delivering message
Delivered(message) ==
  /\ pc = "client_loop"
  /\ calls' # <<>>
  /\ calls'[1] = CallbackCall(message)

\* the step changed nothing but the LED, the position in loop() and the
\* record of the delivery
OnlyLedMayChange ==
  /\ Len(calls') = 1
  /\ did' = did
  /\ pc' = "timers"
  /\ UNCHANGED <<apiKeyValid, attempts, device_id, mqttConnected,
                 lastTelemetry, lastHeartbeat, clock, sessionLive, httpCode,
                 signal, idWrites, sinceTelemetry, sinceHeartbeat>>

\* C11: the raw payload led_off and the structured payload
\* {"command":"led_off"} lead from any state to the same state: LED low,
\* nothing published, everything else unchanged; raw led_off is never
\* handled as led_on.
C11_RawLedOffSameAsStructured ==
  [][(Delivered(LedOffStr) \/ Delivered(LedOffJson)) =>
       /\ led' = LOW
       /\ OnlyLedMayChange]_vars

\* the raw payload led_off has just been handled and the LED is off
C11_Witness ==
  /\ calls = <<CallbackCall(LedOffStr)>>
  /\ led = LOW
  /\ pc = "timers"


----------------------------------------------------------------------------
(* C12 *)

\* the step is the timer part of one loop() iteration
TimersStep == pc = "timers" /\ pc' = "loop"
TelemetryDue == Due(clock, lastTelemetry, TELEMETRY_INTERVAL)
HeartbeatDue == Due(clock, lastHeartbeat, HEARTBEAT_INTERVAL)
IsHeartbeat(c) == c.op = "publish" /\ c.topic = "status/heartbeat"

----------------------------------------------------------------------------
(* C13 *)

\* the loop is running without a broker session
Disconnected == pc \in LoopPcs /\ ~sessionLive

\* C13: connectToMQTT returns only when the client is connected, no step
\* taken without a session restarts the device, and, the broker eventually
\* accepting a connect, every disconnection is followed by a re-established
\* session.
C13_ReconnectUntilSuccess ==
  /\ [][pc = "mqtt_connect" /\ pc' # "mqtt_connect" =>
          sessionLive /\ pc' = "client_loop"]_vars
  /\ [][Disconnected => pc' # "restarting"]_vars
  /\ (Disconnected ~> sessionLive)

\* a session was established, lost, and the connect routine is retrying
\* after a refused attempt
C13_Witness ==
  /\ pc = "mqtt_connect"
  /\ ~sessionLive
  /\ mqttConnected
  /\ calls = <<ConnectCall(device_id, FALSE)>>


----------------------------------------------------------------------------
(* C14 *)

\* the calls of one successful pass through the body of connectToMQTT
Handshake(id) ==
  <<[op |-> "connect", id |-> id, willTopic |-> "status/offline",
     willRetained |-> TRUE, ok |-> TRUE],
    [op |-> "publish", topic |-> "status/online", id |-> id,
     retained |-> TRUE, temperature |-> FALSE, humidity |-> FALSE,
     live |-> TRUE],
    [op |-> "subscribe", topic |-> "commands/control", id |-> id]>>

\* a publish on a periodic topic that reaches the broker
IsLiveEmission(c) == c.op = "publish" /\ c.topic \in EmissionTopics /\ c.live

\* C14: a session comes up only in a step of connectToMQTT that makes, in
\* this order, the connect with the retained offline will, the retained
\* online publish and the command subscription, and that does not return;
\* every publish reaching the broker on the telemetry or heartbeat topic and
\* every command delivery happens in a later step of that session.
C14_HandshakeOrder ==
  /\ [][~sessionLive /\ sessionLive' =>
          /\ pc = "mqtt_connect"
          /\ pc' = "mqtt_connect"
          /\ calls' = Handshake(device_id)]_vars
  /\ [][(\E n \in 1..Len(calls') :
            IsLiveEmission(calls'[n]) \/ calls'[n].op = "callback")
          => sessionLive /\ pc # "mqtt_connect"]_vars

\* a session re-established after a loss: the handshake has just been made
\* and commands were already served in an earlier session
C14_Witness ==
  /\ pc = "mqtt_connect"
  /\ sessionLive
  /\ calls = Handshake(device_id)
  /\ lastTelemetry # 0


----------------------------------------------------------------------------
(* C15 *)

\* the telemetry and the heartbeat publishes among cs
TelemetryIn(cs) == {n \in 1..Len(cs) : IsTelemetry(cs[n])}
HeartbeatIn(cs) == {n \in 1..Len(cs) : IsHeartbeat(cs[n])}

\* C15: a loop step that finds a timer's interval elapsed sets that timer
\* to the current time whether the publish is skipped, fails or succeeds,
\* makes at most one attempt for it, and finds it due only when a full
\* interval has passed since the timer was last set; a loop step that does
\* not find the interval elapsed makes no attempt, whatever became of the
\* previous one.
C15_TimerAdvancesRegardless ==
  [][TimersStep =>
       /\ (TelemetryDue =>
             /\ lastTelemetry' = clock
             /\ sinceTelemetry >= TELEMETRY_INTERVAL
             /\ Cardinality(TelemetryIn(calls')) <= 1)
       /\ (~TelemetryDue => TelemetryIn(calls') = {})
       /\ (HeartbeatDue =>
             /\ lastHeartbeat' = clock
             /\ sinceHeartbeat >= HEARTBEAT_INTERVAL
             /\ Cardinality(HeartbeatIn(calls')) <= 1)
       /\ (~HeartbeatDue => HeartbeatIn(calls') = {})]_vars

\* a telemetry publish has just failed on a lost session and the telemetry
\* timer was set to the time of that iteration all the same
C15_Witness ==
  /\ pc = "loop"
  /\ \E n \in TelemetryIn(calls) : ~calls[n].live
  /\ lastTelemetry = clock
  /\ lastTelemetry # 0
  /\ sinceTelemetry = 0


----------------------------------------------------------------------------
(* C16 *)

\* the commands handleCommand knows
KnownCommands == {LedOnStr, LedOffStr, RestartStr, StatusStr}

\* message is structured data with a command field
HasCommandField(message) ==
  /\ ~DeserializeJson(message).error
  /\ ContainsKey(DeserializeJson(message), CommandStr)

\* a structured message whose command field names no known command, or a
\* message without command field that contains none of the three substrings
Unrecognized(message) ==
  IF HasCommandField(message)
    THEN ValueOf(DeserializeJson(message), CommandStr) \notin KnownCommands
    ELSE /\ ~Contains(message, LedOnStr)
         /\ ~Contains(message, LedOffStr)
         /\ ~Contains(message, RestartStr)

\* C16: delivering an unrecognized message publishes nothing, does not
\* restart, and leaves the LED, device_id, mqttConnected, lastTelemetry and
\* lastHeartbeat unchanged.
C16_UnknownCommandDropped ==
  [][\A message \in Payloads :
       Delivered(message) /\ Unrecognized(message) =>
         /\ led' = led
         /\ OnlyLedMayChange]_vars

\* {"command":"blink"} has just been delivered with the LED on, and the LED
\* is still on
C16_Witness ==
  /\ calls = <<CallbackCall(Obj1(CommandStr, BlinkStr))>>
  /\ pc = "timers"
  /\ led = HIGH


----------------------------------------------------------------------------
(* C17 *)

\* the step leaves connectToWiFi with the link found down at line 161
JoinFailed ==
  /\ pc = "wifi"
  /\ Len(calls') >= 2
  /\ ~calls'[2].up

\* the step delivers a message asking for a restart: by its command field,
\* or, without one, by the substring restart with neither led_on nor led_off
RestartCommanded ==
  \E message \in Payloads :
    /\ Delivered(message)
    /\ IF HasCommandField(message)
         THEN ValueOf(DeserializeJson(message), CommandStr) = RestartStr
         ELSE /\ ~Contains(message, LedOnStr)
              /\ ~Contains(message, LedOffStr)
              /\ Contains(message, RestartStr)

\* the step is a device restart
Restarts == pc # "restarting" /\ pc' = "restarting"

Halted == pc \in {"halt_key", "halt_prov"}

\* C17 as stated: an invalid API key and a failed identity resolution each
\* lead to a device restart, as do a failed network join and the restart
\* command, and nothing else restarts the device.
C17_EveryTriggerRestarts ==
  /\ (pc = "halt_key" ~> pc = "restarting")
  /\ (pc = "halt_prov" ~> pc = "restarting")
  /\ [][Restarts <=> (JoinFailed \/ RestartCommanded)]_vars

\* C17, amended: the program always has a next step; the device restarts
\* exactly on a failed network join and on a restart command, the restart
\* being the last call of that step; after an invalid API key or a failed
\* identity resolution it stays in its halt loop and does not restart.
C17_RestartOnlyOnJoinFailureOrCommand ==
  /\ [](ENABLED Thread)
  /\ [][Restarts <=> (JoinFailed \/ RestartCommanded)]_vars
  /\ [][Restarts => calls'[Len(calls')] = RestartCall]_vars
  /\ [][Halted => pc' = pc /\ calls' = <<>>]_vars

\* the device has been signalling an invalid API key in its halt loop for
\* longer than the clock can count, without restarting
C17_Witness ==
  /\ pc = "halt_key"
  /\ signal = KeyHaltSignal
  /\ sinceTelemetry = Modulus
  /\ sinceHeartbeat = Modulus


----------------------------------------------------------------------------
(* C18 *)

\* the step, a delivery, did what handleCommand does for command and
\* nothing else (<<>>: no command was handled)
Handled(command) ==
  IF command = LedOnStr THEN led' = HIGH /\ OnlyLedMayChange
  ELSE IF command = LedOffStr THEN led' = LOW /\ OnlyLedMayChange
  ELSE IF command = RestartStr
    THEN /\ pc' = "restarting"
         /\ Len(calls') = 2
         /\ calls'[2] = RestartCall
         /\ led' = led
  ELSE IF command = StatusStr
    THEN /\ pc' = "timers"
         /\ Len(calls') = 3
         /\ calls'[2].op = "dht.read"
         /\ IsTelemetry(calls'[3])
         /\ led' = LOW
  ELSE led' = led /\ OnlyLedMayChange

\* the first of led_on, led_off, restart that occurs in message, <<>> when
\* none does
FirstMatch(message) ==
  IF Contains(message, LedOnStr) THEN LedOnStr
  ELSE IF Contains(message, LedOffStr) THEN LedOffStr
  ELSE IF Contains(message, RestartStr) THEN RestartStr
  ELSE <<>>

\* C18: a delivery handles at most one command: the value of the command
\* field when the payload is structured data with such a field, whatever
\* else the payload contains, and otherwise the first of led_on, led_off,
\* restart occurring in it, never status.  In particular
\* {"command":"status","note":"restart"} sends telemetry and does not
\* restart, {"note":"led_on","command":"led_off"} turns the LED off,
\* {"note":"restart"} restarts, "led_off led_on" turns the LED on, and raw
\* status does nothing.
C18_OneCommandPerMessage ==
  [][/\ \A message \in Payloads :
          Delivered(message) =>
            IF HasCommandField(message)
              THEN Handled(ValueOf(DeserializeJson(message), CommandStr))
              ELSE Handled(FirstMatch(message))
     /\ (Delivered(Obj2(CommandStr, StatusStr, NoteStr, RestartStr)) =>
           Handled(StatusStr))
     /\ (Delivered(Obj2(NoteStr, LedOnStr, CommandStr, LedOffStr)) =>
           Handled(LedOffStr))
     /\ (Delivered(Obj1(NoteStr, RestartStr)) => Handled(RestartStr))
     /\ (Delivered(LedOffStr \o <<" ">> \o LedOnStr) => Handled(LedOnStr))
     /\ (Delivered(Quote(LedOffStr)) => Handled(LedOffStr))
     /\ (Delivered(StatusStr) => Handled(<<>>))]_vars

\* {"command":"status","note":"restart"} has just been delivered: telemetry
\* was published and the device keeps running
C18_Witness ==
  /\ pc = "timers"
  /\ Len(calls) = 3
  /\ calls[1] = CallbackCall(Obj2(CommandStr, StatusStr, NoteStr, RestartStr))
  /\ IsTelemetry(calls[3])


----------------------------------------------------------------------------
(* C19 *)

\* the step delivers a status command
StatusCommanded ==
  \E message \in Payloads :
    /\ Delivered(message)
    /\ HasCommandField(message)
    /\ ValueOf(DeserializeJson(message), CommandStr) = StatusStr

\* C19: a status command makes exactly one telemetry publish when
\* mqttConnected is set and device_id is positive and none otherwise, and
\* leaves lastTelemetry, lastHeartbeat and the clock as they were, so each
\* timer is due after the step exactly when it was due before it.
C19_StatusOutOfBand ==
  [][StatusCommanded =>
       /\ Cardinality(TelemetryIn(calls')) =
            (IF mqttConnected /\ device_id > 0 THEN 1 ELSE 0)
       /\ HeartbeatIn(calls') = {}
       /\ pc' = "timers"
       /\ lastTelemetry' = lastTelemetry
       /\ lastHeartbeat' = lastHeartbeat
       /\ sinceTelemetry' = sinceTelemetry
       /\ sinceHeartbeat' = sinceHeartbeat
       /\ TelemetryDue' = TelemetryDue
       /\ HeartbeatDue' = HeartbeatDue]_vars

\* a status command has just published telemetry although less than
\* TELEMETRY_INTERVAL has passed since the telemetry timer was serviced
C19_Witness ==
  /\ pc = "timers"
  /\ Len(calls) = 3
  /\ calls[1] = CallbackCall(Obj1(CommandStr, StatusStr))
  /\ IsTelemetry(calls[3])
  /\ lastTelemetry # 0
  /\ sinceTelemetry < TELEMETRY_INTERVAL


----------------------------------------------------------------------------
(* C20 *)

\* C20: whenever less than 2^W ms have really passed since a timer was last
\* set, the W-bit difference the loop computes is that elapsed time, and the
\* interval check of a loop step fires exactly when the elapsed time is at
\* least the interval, whether or not the counter has wrapped in between.
C20_IntervalCheckSurvivesWrap ==
  [][/\ (sinceTelemetry < Modulus =>
           (clock - lastTelemetry) % Modulus = sinceTelemetry)
     /\ (sinceHeartbeat < Modulus =>
           (clock - lastHeartbeat) % Modulus = sinceHeartbeat)
     /\ (TimersStep /\ sinceTelemetry < Modulus =>
           /\ TelemetryDue = (sinceTelemetry >= TELEMETRY_INTERVAL)
           /\ (TelemetryIn(calls') # {}) = (sinceTelemetry >= TELEMETRY_INTERVAL))
     /\ (TimersStep /\ sinceHeartbeat < Modulus =>
           /\ HeartbeatDue = (sinceHeartbeat >= HEARTBEAT_INTERVAL)
           /\ (HeartbeatIn(calls') # {}) = (sinceHeartbeat >= HEARTBEAT_INTERVAL))]_vars

\* the counter has wrapped since the heartbeat timer was set and the wrapped
\* difference, at least HEARTBEAT_INTERVAL, makes the heartbeat due
C20_Witness ==
  /\ pc = "timers"
  /\ clock < lastHeartbeat
  /\ sinceHeartbeat >= HEARTBEAT_INTERVAL
  /\ sinceHeartbeat < Modulus
  /\ HeartbeatDue

====
